---- MODULE Spec2Model ----
(***************************************************************************)
(* Request-admission gate of src/src/validateRequest.js.                   *)
(*                                                                         *)
(* Every request in flight owns one slot.  A slot holds the request as     *)
(* the HTTP layer delivered it, the frames of the two async functions     *)
(* (validateRequest and checkAdminRequest) that run for it, the responses  *)
(* written with send and the trace of the external calls made for it.      *)
(* An async function runs without interruption up to its next await; each  *)
(* action below is one such uninterrupted run.                             *)
(*                                                                         *)
(* A request is an input.  Each of its parts is given a value the first    *)
(* time the code reads it and keeps that value afterwards (field           *)
(* "observed" records which parts the code has read).                      *)
(***************************************************************************)
EXTENDS Integers, Sequences, FiniteSets, TLC

VARIABLES rq, banStore, now

vars == <<rq, banStore, now>>

(***************************************************************************)
(* Bounds of the model.                                                    *)
(***************************************************************************)
\* endpoints.MAX_CONTENT_LENGTH of the table the caller passes in
MaxContentLength == 4
\* Math.random() returns n / RandomDen for some n in 0 .. RandomDen - 1
RandomDen == 60
\* last instant of the clock
MaxNow == 300

\* the numerators n the model draws for Math.random()
RandomSamples == {0, 1, RandomDen - 1}
\* the instants at which the clock is observed
Instants == {0, MaxNow}
\* slots for requests in flight: one in Spec, all of them in SpecRace
Slots == {1, 2}

(***************************************************************************)
(* Values.                                                                 *)
(***************************************************************************)
\* a JS header value: undefined, or a string
Undefined(empty) == [def |-> FALSE, s |-> empty]
Str(s) == [def |-> TRUE, s |-> s]
\* JS truthiness of a header value whose empty string is `empty`
Truthy(h, empty) == h.def /\ h.s # empty

\* number | NaN
NaN == [nan |-> TRUE, n |-> 0]
Num(n) == [nan |-> FALSE, n |-> n]

\* a point of the curve, and its compressed encoding <<prefix, x>>
CurveXs == {5, 7}
Point(x, odd) == [x |-> x, odd |-> odd]
NoKey == [x |-> 0, odd |-> FALSE]
ControlKey == Point(7, FALSE)
OtherKey == Point(5, TRUE)

\* a signature header: "" | an undecodable string | SIGN_signer(SHA256(msg))
NoSig == [kind |-> "empty", signer |-> NoKey, msg |-> <<>>]
GarbageSig == [kind |-> "garbage", signer |-> NoKey, msg |-> <<>>]
Sign(k, body) == [kind |-> "sig", signer |-> k, msg |-> body]

Idle ==
    [entry |-> "idle", method |-> "", pathname |-> "", observed |-> {},
     contentLengthHdr |-> Undefined(<<>>), contentTypeHdr |-> Undefined(""),
     publicKeyHdr |-> Undefined(<<>>), signatureHdr |-> Undefined(NoSig),
     realIpHdr |-> Undefined(""), forwardedForHdr |-> Undefined(""),
     remoteAddress |-> "", body |-> <<>>,
     vpc |-> "none", vres |-> "pending",
     contentLength |-> NaN, rawBody |-> <<>>, key |-> NoKey,
     apc |-> "none", ares |-> "pending", ip |-> "", duration |-> 0,
     sent |-> <<>>, calls |-> <<>>, bannedAt |-> 0]


(***************************************************************************)
(* Library functions the gate calls.                                       *)
(***************************************************************************)
Digits == <<"0", "1", "2", "3", "4", "5", "6", "7", "8", "9">>
IsDigit(c) == \E i \in 1..10 : Digits[i] = c
DigitVal(c) == (CHOOSE i \in 1..10 : Digits[i] = c) - 1

RECURSIVE SkipWhite(_)
SkipWhite(s) == IF s # <<>> /\ Head(s) = " " THEN SkipWhite(Tail(s)) ELSE s

RECURSIVE ParseDigits(_, _)
ParseDigits(s, acc) ==
    IF s = <<>> \/ ~IsDigit(Head(s)) THEN acc
    ELSE ParseDigits(Tail(s), acc * 10 + DigitVal(Head(s)))

\* parseInt(h): leading white space, an optional sign, then the longest
\* prefix of decimal digits; NaN when there is none (undefined reads as the
\* string "undefined").  No header of the model starts with "0x".
ParseInt(h) ==
    IF ~h.def THEN NaN
    ELSE LET t == SkipWhite(h.s)
             signed == t # <<>> /\ Head(t) \in {"+", "-"}
             u == IF signed THEN Tail(t) ELSE t
         IN  IF u = <<>> \/ ~IsDigit(Head(u)) THEN NaN
             ELSE IF signed /\ Head(t) = "-" THEN Num(0 - ParseDigits(u, 0))
             ELSE Num(ParseDigits(u, 0))

\* Math.ceil(a / b) for a >= 0, b > 0
Ceil(a, b) == (a + b - 1) \div b

\* ECDSA.fromCompressedPublicKey throws unless the string decodes to a
\* parity prefix (02 or 03) followed by the x coordinate of a curve point
ParsesAsKey(s) == Len(s) = 2 /\ s[1] \in {2, 3} /\ s[2] \in CurveXs
fromCompressedPublicKey(s) == Point(s[2], s[1] = 3)
toCompressedPublicKey(k) == <<IF k.odd THEN 3 ELSE 2, k.x>>

\* key.hashAndVerify(message, signature) for a signature that decodes
hashAndVerify(key, message, sig) == sig.signer = key /\ sig.msg = message

\* send(response, status, {success: false, error}) of micro; returns undefined
send(r, status, error) ==
    [r EXCEPT !.sent = Append(@, [status |-> status, error |-> error]),
              !.calls = Append(@, "send")]

(***************************************************************************)
(* The collaborators ./service/ban and ./model/keys.                       *)
(***************************************************************************)
isBanned(store, ip, t) == \E b \in store : b.address = ip /\ t < b.expiresAt

ban(store, ip, seconds, t) ==
    {b \in store : b.address # ip} \cup {[address |-> ip, expiresAt |-> t + seconds]}

getPublicControlKey == ControlKey

(***************************************************************************)
(* The caller's endpoint table.                                            *)
(***************************************************************************)
endpoints == [GET |-> {"/a", "/g"}, POST |-> {"/a"}]

\* endpoints[method] && endpoints[method][pathname]
EndpointExists(method, pathname) ==
    method \in DOMAIN endpoints /\ pathname \in endpoints[method]

acceptedContentTypes == {"application/json", "application/json; charset=utf-8"}

MINUTE == 60


(***************************************************************************)
(* validateRequest (exported as checkRequest), lines 7-57.                 *)
(***************************************************************************)
Observe(r, part) == [r EXCEPT !.observed = @ \cup {part}]
Call(r, callee) == [r EXCEPT !.calls = Append(@, callee)]

\* validateRequest returns v: its promise resolves
validateReturn(r, v) ==
    [Call(r, "validateRequest.return") EXCEPT !.vpc = "returned", !.vres = v]

\* an await of validateRequest rejects outside the try block: its promise rejects
validateThrow(r) ==
    [Call(r, "validateRequest.throw") EXCEPT !.vpc = "returned", !.vres = "rejected"]

\* validateRequest without the test of line 12: every method takes the POST path
validateRequestEnterAnyMethod(r, cl) ==
    IF ~EndpointExists(r.method, r.pathname)
    THEN validateReturn(send(r, 404, "Not found"), "undefined")
    ELSE [Call(Observe(r, "content-length"), "text") EXCEPT
              !.contentLengthHdr = cl,
              !.contentLength = ParseInt(cl),
              !.vpc = "text"]

\* lines 8-16: from the call up to the await of text(request)
validateRequestEnter(r, cl) ==
    IF ~EndpointExists(r.method, r.pathname)
    THEN validateReturn(send(r, 404, "Not found"), "undefined")
    ELSE IF r.method = "POST"
    THEN [Call(Observe(r, "content-length"), "text") EXCEPT
              !.contentLengthHdr = cl,
              !.contentLength = ParseInt(cl),
              !.vpc = "text"]
    ELSE validateReturn(r, "true")

\* !contentLength || contentLength > maxContentLength || rawBody.length > contentLength
ContentLengthFails(contentLength, rawBody) ==
    \/ contentLength.nan
    \/ contentLength.n = 0
    \/ contentLength.n > MaxContentLength
    \/ Len(rawBody) > contentLength.n

\* validateRequest with the content-type check moved before the length check
validateRequestAfterTextTypeFirst(r, fails, body, ct, pk, sg) ==
    IF fails THEN validateThrow(r)
    ELSE
    LET r1 == [Observe(r, "body") EXCEPT !.body = body, !.rawBody = body]
        r2 == [Observe(r1, "content-type") EXCEPT !.contentTypeHdr = ct]
        r3 == [Observe(Observe(r2, "x-public-key"), "x-signature") EXCEPT
                   !.publicKeyHdr = pk, !.signatureHdr = sg]
    IN  IF ~(ct.def /\ ct.s \in acceptedContentTypes)
        THEN validateReturn(send(r2, 400, "Header Content-Type should be one of"), "undefined")
        ELSE IF ContentLengthFails(r2.contentLength, r2.rawBody)
        THEN validateReturn(send(r2, 413, "Content length should be less than"), "undefined")
        ELSE IF ~Truthy(pk, <<>>) \/ ~Truthy(sg, NoSig)
        THEN validateReturn(
                 send(r3, 401, "Header should contain X-Public-Key and X-Signature"),
                 "undefined")
        ELSE IF ~ParsesAsKey(pk.s)
        THEN validateReturn(
                 send(r3, 401, "Header X-Public-Key should be the compressed public key"),
                 "undefined")
        ELSE [Call(r3, "hashAndVerify") EXCEPT
                  !.key = fromCompressedPublicKey(pk.s),
                  !.vpc = "hashAndVerify"]

\* lines 16-42: from the end of the body read up to the await of hashAndVerify
validateRequestAfterText(r, fails, body, ct, pk, sg) ==
    IF fails THEN validateThrow(r)
    ELSE
    LET r1 == [Observe(r, "body") EXCEPT !.body = body, !.rawBody = body]
        r2 == [Observe(r1, "content-type") EXCEPT !.contentTypeHdr = ct]
        r3 == [Observe(Observe(r2, "x-public-key"), "x-signature") EXCEPT
                   !.publicKeyHdr = pk, !.signatureHdr = sg]
    IN  IF ContentLengthFails(r1.contentLength, r1.rawBody)
        THEN validateReturn(send(r1, 413, "Content length should be less than"), "undefined")
        ELSE IF ~(ct.def /\ ct.s \in acceptedContentTypes)
        THEN validateReturn(send(r2, 400, "Header Content-Type should be one of"), "undefined")
        ELSE IF ~Truthy(pk, <<>>) \/ ~Truthy(sg, NoSig)
        THEN validateReturn(
                 send(r3, 401, "Header should contain X-Public-Key and X-Signature"),
                 "undefined")
        ELSE IF ~ParsesAsKey(pk.s)
        THEN validateReturn(
                 send(r3, 401, "Header X-Public-Key should be the compressed public key"),
                 "undefined")
        ELSE [Call(r3, "hashAndVerify") EXCEPT
                  !.key = fromCompressedPublicKey(pk.s),
                  !.vpc = "hashAndVerify"]

\* validateRequest with the negation of line 42 lost: a signature that does
\* not verify passes
validateRequestAfterVerifyInverted(r, throws) ==
    LET sig == r.signatureHdr.s IN
    IF sig.kind = "garbage" /\ throws
    THEN validateReturn(
             send(r, 401, "Header X-Public-Key should be the compressed public key"),
             "undefined")
    ELSE IF sig.kind = "sig" /\ hashAndVerify(r.key, r.rawBody, sig)
    THEN validateReturn(send(r, 401, "Header X-Signature does not verify"), "undefined")
    ELSE validateReturn(r, "true")

\* lines 42-56: from the end of hashAndVerify to the return.  A signature
\* that does not decode makes the library return false or throw.
validateRequestAfterVerify(r, throws) ==
    LET sig == r.signatureHdr.s IN
    IF sig.kind = "garbage" /\ throws
    THEN validateReturn(
             send(r, 401, "Header X-Public-Key should be the compressed public key"),
             "undefined")
    ELSE IF ~(sig.kind = "sig" /\ hashAndVerify(r.key, r.rawBody, sig))
    THEN validateReturn(send(r, 401, "Header X-Signature does not verify"), "undefined")
    ELSE validateReturn(r, "true")

(***************************************************************************)
(* getIp, lines 59-65, and checkAdminRequest, lines 67-87.                 *)
(***************************************************************************)
\* the parts of the request getIp reads, in the order of the || chain
ObserveIp(r, ri, ff, ra) ==
    LET r1 == [Observe(r, "x-real-ip") EXCEPT !.realIpHdr = ri]
        r2 == [Observe(r1, "x-forwarded-for") EXCEPT !.forwardedForHdr = ff]
        r3 == [Observe(r2, "remoteAddress") EXCEPT !.remoteAddress = ra]
    IN  IF Truthy(ri, "") THEN r1 ELSE IF Truthy(ff, "") THEN r2 ELSE r3

\* getIp that ignores the proxy headers
getIpPeerOnly(r) == r.remoteAddress

getIp(r) ==
    IF Truthy(r.realIpHdr, "") THEN r.realIpHdr.s
    ELSE IF Truthy(r.forwardedForHdr, "") THEN r.forwardedForHdr.s
    ELSE r.remoteAddress

adminReturn(r, v) ==
    [Call(r, "checkAdminRequest.return") EXCEPT !.apc = "returned", !.ares = v]

adminThrow(r) ==
    [Call(r, "checkAdminRequest.throw") EXCEPT !.apc = "returned", !.ares = "rejected"]

\* line 68 tests the promise validateRequest returns, which is an object
\* and so truthy whatever it resolves to
PromiseIsTruthy(r) == TRUE

\* checkAdminRequest without the test of line 69: every method takes the
\* ban check
checkAdminRequestEnterAnyMethod(r, cl, ri, ff, ra) ==
    LET v == validateRequestEnter(r, cl) IN
    IF PromiseIsTruthy(v)
    THEN LET w == ObserveIp(v, ri, ff, ra) IN
         [Call(w, "isBanned") EXCEPT !.ip = getIp(w), !.apc = "isBanned"]
    ELSE adminReturn(v, "undefined")

\* lines 68-71: from the call up to the await of isBanned(ip)
checkAdminRequestEnter(r, cl, ri, ff, ra) ==
    LET v == validateRequestEnter(r, cl) IN
    IF PromiseIsTruthy(v)
    THEN IF v.method = "POST"
         THEN LET w == ObserveIp(v, ri, ff, ra) IN
              [Call(w, "isBanned") EXCEPT !.ip = getIp(w), !.apc = "isBanned"]
         ELSE adminReturn(v, "true")
    ELSE adminReturn(v, "undefined")

\* checkAdminRequest with the answer of isBanned dropped: the control-key
\* step always runs
checkAdminRequestAfterIsBannedDropped(r, fails, store, t) ==
    IF fails THEN adminThrow(r)
    ELSE [Call(r, "getPublicControlKey") EXCEPT !.apc = "getPublicControlKey"]

\* lines 71-74: from the answer of isBanned up to the await of getPublicControlKey
checkAdminRequestAfterIsBanned(r, fails, store, t) ==
    IF fails THEN adminThrow(r)
    ELSE IF isBanned(store, r.ip, t)
         THEN adminReturn(send(r, 401, "Banned"), "undefined")
         ELSE [Call(r, "getPublicControlKey") EXCEPT !.apc = "getPublicControlKey"]

\* the ban duration with the factor 5 lost
BanSecondsOneMinute(n) == MINUTE + Ceil(n * 30, RandomDen)

\* the ban duration with a jitter of up to 60 seconds
BanSecondsWideJitter(n) == 5 * MINUTE + Ceil(n * 60, RandomDen)

\* 5 * MINUTE + Math.ceil(Math.random() * 30), Math.random() = n / RandomDen
BanSeconds(n) == 5 * MINUTE + Ceil(n * 30, RandomDen)

\* checkAdminRequest with === for !== on line 75
checkAdminRequestAfterKeyFlipped(r, fails, pk, n) ==
    IF fails THEN adminThrow(r)
    ELSE LET controlKey == toCompressedPublicKey(getPublicControlKey)
             r1 == [Observe(r, "x-public-key") EXCEPT !.publicKeyHdr = pk]
         IN  IF pk.def /\ pk.s = controlKey
             THEN [Call(r1, "ban") EXCEPT !.duration = 5 * MINUTE + Ceil(n * 30, RandomDen),
                                          !.apc = "ban"]
             ELSE adminReturn(r1, "true")

\* lines 74-77: from the control key up to the await of ban(ip, seconds)
checkAdminRequestAfterKey(r, fails, pk, n) ==
    IF fails THEN adminThrow(r)
    ELSE LET controlKey == toCompressedPublicKey(getPublicControlKey)
             r1 == [Observe(r, "x-public-key") EXCEPT !.publicKeyHdr = pk]
         IN  IF ~(pk.def /\ pk.s = controlKey)
             THEN [Call(r1, "ban") EXCEPT !.duration = BanSeconds(n), !.apc = "ban"]
             ELSE adminReturn(r1, "true")

\* lines 77-81: from the end of ban to the return
checkAdminRequestAfterBan(r, fails, t) ==
    IF fails THEN adminThrow(r)
    ELSE adminReturn(
             send([r EXCEPT !.bannedAt = t],
                  401, "Header X-Public-Key should be the control key"),
             "undefined")


(***************************************************************************)
(* The requests the environment sends and the outcomes of its I/O.         *)
(* A body is the sequence of its characters.                               *)
(***************************************************************************)
Bodies == {<<"a">>, <<"a", "b">>, <<"a", "a", "a">>}

AnyRequest ==
    [entry |-> {"checkRequest", "checkAdminRequest"},
     method |-> {"GET", "POST", "PUT"},
     pathname |-> {"/a", "/g"},
     contentLength |-> {Undefined(<<>>), Str(<<"0">>), Str(<<"2">>),
                        Str(<<"2", "x">>), Str(<<"9">>)},
     body |-> Bodies,
     contentType |-> {Undefined(""), Str("application/json"),
                      Str("application/json; charset=utf-8"), Str("Application/JSON")},
     publicKey |-> {Undefined(<<>>), Str(<<>>), Str(toCompressedPublicKey(ControlKey)),
                    Str(toCompressedPublicKey(OtherKey)), Str(<<4, 7>>)},
     signature |-> {Undefined(NoSig), Str(NoSig), Str(GarbageSig)}
                   \cup {Str(Sign(k, b)) : k \in {ControlKey, OtherKey},
                                           b \in {<<"a">>, <<"a", "b">>}},
     realIp |-> {Undefined(""), Str(""), Str("10.0.0.1")},
     forwardedFor |-> {Undefined(""), Str("10.0.0.2")},
     remoteAddress |-> {"10.0.0.3"},
     ioFails |-> BOOLEAN]

\* admin requests of one client racing each other
RacingRequest ==
    [entry |-> {"checkAdminRequest"},
     method |-> {"GET", "POST"},
     pathname |-> {"/a"},
     contentLength |-> {Str(<<"2">>)},
     body |-> {<<"a">>},
     contentType |-> {Str("application/json")},
     publicKey |-> {Str(toCompressedPublicKey(ControlKey)),
                    Str(toCompressedPublicKey(OtherKey))},
     signature |-> {Str(Sign(OtherKey, <<"a">>))},
     realIp |-> {Str("10.0.0.1")},
     forwardedFor |-> {Undefined("")},
     remoteAddress |-> {"10.0.0.3"},
     ioFails |-> {FALSE}]

\* a header the code has read keeps its value
PublicKeyOf(r, D) ==
    IF "x-public-key" \in r.observed THEN {r.publicKeyHdr} ELSE D.publicKey

(***************************************************************************)
(* Actions: one per uninterrupted run of an async function.                *)
(***************************************************************************)
Init ==
    /\ rq = [s \in Slots |-> Idle]
    /\ banStore = {}
    /\ now = 0

\* the caller invokes checkRequest for a new request
checkRequest(s, D) ==
    /\ rq[s].entry = "idle"
    /\ "checkRequest" \in D.entry
    /\ \E m \in D.method, p \in D.pathname, cl \in D.contentLength :
          rq' = [rq EXCEPT ![s] =
                   validateRequestEnter(
                       [Idle EXCEPT !.entry = "checkRequest", !.method = m,
                                    !.pathname = p], cl)]
    /\ UNCHANGED <<banStore, now>>

\* the caller invokes checkAdminRequest for a new request
checkAdminRequest(s, D) ==
    /\ rq[s].entry = "idle"
    /\ "checkAdminRequest" \in D.entry
    /\ \E m \in D.method, p \in D.pathname, cl \in D.contentLength,
          ri \in D.realIp, ff \in D.forwardedFor, ra \in D.remoteAddress :
          rq' = [rq EXCEPT ![s] =
                   checkAdminRequestEnter(
                       [Idle EXCEPT !.entry = "checkAdminRequest", !.method = m,
                                    !.pathname = p], cl, ri, ff, ra)]
    /\ UNCHANGED <<banStore, now>>

\* text(request) settles
TextSettles(s, D) ==
    /\ rq[s].vpc = "text"
    /\ \E fails \in D.ioFails, body \in D.body, ct \in D.contentType,
          pk \in PublicKeyOf(rq[s], D), sg \in D.signature :
          rq' = [rq EXCEPT ![s] =
                   validateRequestAfterText(rq[s], fails, body, ct, pk, sg)]
    /\ UNCHANGED <<banStore, now>>

\* key.hashAndVerify(rawBody, signature) settles
VerifySettles(s) ==
    /\ rq[s].vpc = "hashAndVerify"
    /\ \E throws \in BOOLEAN :
          rq' = [rq EXCEPT ![s] = validateRequestAfterVerify(rq[s], throws)]
    /\ UNCHANGED <<banStore, now>>

\* isBanned(ip) settles
IsBannedSettles(s, D) ==
    /\ rq[s].apc = "isBanned"
    /\ \E fails \in D.ioFails :
          rq' = [rq EXCEPT ![s] =
                   checkAdminRequestAfterIsBanned(rq[s], fails, banStore, now)]
    /\ UNCHANGED <<banStore, now>>

\* getPublicControlKey() settles
ControlKeySettles(s, D) ==
    /\ rq[s].apc = "getPublicControlKey"
    /\ \E fails \in D.ioFails, pk \in PublicKeyOf(rq[s], D), n \in RandomSamples :
          rq' = [rq EXCEPT ![s] = checkAdminRequestAfterKey(rq[s], fails, pk, n)]
    /\ UNCHANGED <<banStore, now>>

\* the ban written for the peer address instead of the resolved address
BanSettlesPeerAddress(s, D) ==
    /\ rq[s].apc = "ban"
    /\ \E fails \in D.ioFails :
          /\ rq' = [rq EXCEPT ![s] = checkAdminRequestAfterBan(rq[s], fails, now)]
          /\ banStore' = IF fails THEN banStore
                         ELSE ban(banStore, rq[s].remoteAddress, rq[s].duration, now)
    /\ UNCHANGED now

\* ban(ip, seconds) settles: the record is written unless the store fails
BanSettles(s, D) ==
    /\ rq[s].apc = "ban"
    /\ \E fails \in D.ioFails :
          /\ rq' = [rq EXCEPT ![s] = checkAdminRequestAfterBan(rq[s], fails, now)]
          /\ banStore' = IF fails THEN banStore
                         ELSE ban(banStore, rq[s].ip, rq[s].duration, now)
    /\ UNCHANGED now

\* both async functions of a request have settled and the server drops it
Release(s) ==
    /\ rq[s].vpc = "returned"
    /\ rq[s].apc \in {"none", "returned"}
    /\ rq' = [rq EXCEPT ![s] = Idle]
    /\ UNCHANGED <<banStore, now>>

\* time passes
Tick ==
    /\ \E t \in Instants : t > now /\ now' = t
    /\ UNCHANGED <<rq, banStore>>

AdminStep(s, D) ==
    \/ checkAdminRequest(s, D)
    \/ TextSettles(s, D)
    \/ VerifySettles(s)
    \/ IsBannedSettles(s, D)
    \/ ControlKeySettles(s, D)
    \/ BanSettles(s, D)

\* one request of any shape, handled within one instant
Next == checkRequest(1, AnyRequest) \/ AdminStep(1, AnyRequest)

Spec == Init /\ [][Next]_vars

\* several requests of one client in flight together
NextRace == Tick \/ \E s \in Slots : AdminStep(s, RacingRequest) \/ Release(s)

SpecRace == Init /\ [][NextRace]_vars


(***************************************************************************)
(* Vocabulary of the properties, stated on what a request carried and on   *)
(* what was done for it.                                                   *)
(***************************************************************************)
\* what the caller of the gate receives
CallerResult(r) == IF r.entry = "checkAdminRequest" THEN r.ares ELSE r.vres

InTable(r) ==
    \/ r.method = "GET" /\ r.pathname \in {"/a", "/g"}
    \/ r.method = "POST" /\ r.pathname = "/a"

Response(status, error) == [status |-> status, error |-> error]
NotFound == Response(404, "Not found")
TooLarge == Response(413, "Content length should be less than")
Banned == Response(401, "Banned")
NotControlKey == Response(401, "Header X-Public-Key should be the control key")

Wrote(r, resp) == \E i \in 1..Len(r.sent) : r.sent[i] = resp
Called(r, callee) == \E i \in 1..Len(r.calls) : r.calls[i] = callee

LengthAccepted(r) ==
    /\ "body" \in r.observed
    /\ ~r.contentLength.nan
    /\ 1 <= r.contentLength.n
    /\ r.contentLength.n <= MaxContentLength
    /\ Len(r.body) <= r.contentLength.n

TypeAccepted(r) ==
    /\ "content-type" \in r.observed
    /\ r.contentTypeHdr \in {Str("application/json"),
                             Str("application/json; charset=utf-8")}

SignedByDeclaredKey(r) ==
    /\ {"body", "x-public-key", "x-signature"} \subseteq r.observed
    /\ r.publicKeyHdr.def
    /\ r.publicKeyHdr.s \in {<<2, 5>>, <<3, 5>>, <<2, 7>>, <<3, 7>>}
    /\ r.signatureHdr.def
    /\ r.signatureHdr.s.kind = "sig"
    /\ r.signatureHdr.s.signer =
           Point(r.publicKeyHdr.s[2], r.publicKeyHdr.s[1] = 3)
    /\ r.signatureHdr.s.msg = r.body

Validated(r) ==
    /\ InTable(r)
    /\ r.method = "POST" => LengthAccepted(r) /\ TypeAccepted(r) /\ SignedByDeclaredKey(r)

DeclaresControlKey(r) ==
    "x-public-key" \in r.observed /\ r.publicKeyHdr = Str(<<2, 7>>)

(***************************************************************************)
(* C1.  checkAdminRequest returns true for a POST only when the Request    *)
(* Validator has resolved to true for that request: the endpoint exists,   *)
(* the length and type checks passed and the body's signature verified     *)
(* under the key in X-Public-Key.  The code does not wait for the          *)
(* validator, so this fails.                                               *)
(***************************************************************************)
C1_AdminAdmitsOnlyValidated ==
    \A s \in Slots :
        (rq[s].entry = "checkAdminRequest" /\ rq[s].method = "POST"
            /\ rq[s].ares = "true")
        => rq[s].vres = "true" /\ Validated(rq[s])

(***************************************************************************)
(* C2.  validateRequest resolves to true only if the endpoint exists and,  *)
(* for a POST, the content-length check passed, the Content-Type was       *)
(* accepted, both signature headers were present, the key parsed and the   *)
(* signature verified over the raw body; otherwise its value is not true.  *)
(***************************************************************************)
C2_TrueOnlyIfValidated ==
    \A s \in Slots : rq[s].vres = "true" => Validated(rq[s])

C2_Witness ==
    \E s \in Slots :
        /\ rq[s].entry = "checkRequest"
        /\ rq[s].method = "POST"
        /\ rq[s].vres = "true"
        /\ Called(rq[s], "hashAndVerify")

(***************************************************************************)
(* C3.  send is called at most once for a request, and exactly once when   *)
(* the gate reports a failure to its caller.                               *)
(***************************************************************************)
C3_AtMostOneResponse ==
    \A s \in Slots :
        /\ Len(rq[s].sent) <= 1
        /\ CallerResult(rq[s]) = "undefined" => Len(rq[s].sent) = 1

(***************************************************************************)
(* C4.  The gate returns true if and only if no response has been written  *)
(* for the request, and none is written after it returned true.            *)
(***************************************************************************)
C4_TrueIffNoResponse ==
    \A s \in Slots :
        /\ CallerResult(rq[s]) = "true" => rq[s].sent = <<>>
        /\ CallerResult(rq[s]) = "undefined" => rq[s].sent # <<>>


(***************************************************************************)
(* C5.  Admin-mismatch escalation.  An admin POST that is not banned and   *)
(* declares a key other than the control key has ban(A, d) completed with  *)
(* 300 <= d <= 330 when its 401 "should be the control key" is written,    *)
(* and that is its only response when it passed the Request Validator.     *)
(* Later ban checks of admin POSTs from A are answered 401 "Banned" while  *)
(* the record stored for A has not expired, which covers at least the 300  *)
(* seconds after the write.                                                *)
(***************************************************************************)
\* this step settles the ban check of slot s
BanCheckOf(s) == rq[s].apc = "isBanned" /\ rq'[s].apc # "isBanned"

\* this step writes the control-key 401 of slot s
MismatchAnswerOf(s) ==
    ~Wrote(rq[s], NotControlKey) /\ Wrote(rq'[s], NotControlKey)

C5_BanBeforeAnswer ==
    \A s \in Slots :
        MismatchAnswerOf(s) =>
            /\ rq[s].duration \in 300..330
            /\ [address |-> rq[s].ip, expiresAt |-> now + rq[s].duration] \in banStore'
            /\ Called(rq[s], "ban")
            /\ rq'[s].ares = "undefined"
            /\ (Validated(rq[s]) /\ rq[s].vres = "true") => rq'[s].sent = <<NotControlKey>>

C5_MismatchIsAnswered ==
    \A s \in Slots :
        (rq[s].apc = "returned" /\ rq[s].ares # "rejected" /\ rq[s].method = "POST"
            /\ Called(rq[s], "getPublicControlKey") /\ ~DeclaresControlKey(rq[s]))
        => Wrote(rq[s], NotControlKey) /\ Called(rq[s], "ban")

C5_BannedWhileRecordLives ==
    \A s1, s2 \in Slots :
        (s1 # s2 /\ Wrote(rq[s1], NotControlKey) /\ BanCheckOf(s2)
            /\ rq[s2].ip = rq[s1].ip /\ rq'[s2].ares # "rejected")
        => /\ (\E b \in banStore : b.address = rq[s2].ip /\ now < b.expiresAt)
                  => Wrote(rq'[s2], Banned)
           /\ now < rq[s1].bannedAt + 300 => Wrote(rq'[s2], Banned)

C5_Escalation ==
    /\ []C5_MismatchIsAnswered
    /\ [][C5_BanBeforeAnswer /\ C5_BannedWhileRecordLives]_vars

\* the claim as written: banned until the expiry the first ban set
C5_BannedUntilOwnExpiry ==
    [][\A s1, s2 \in Slots :
          (s1 # s2 /\ Wrote(rq[s1], NotControlKey) /\ BanCheckOf(s2)
              /\ rq[s2].ip = rq[s1].ip /\ rq'[s2].ares # "rejected"
              /\ now < rq[s1].bannedAt + rq[s1].duration)
          => Wrote(rq'[s2], Banned)]_vars

C5_Witness ==
    \E s1, s2 \in Slots :
        /\ s1 # s2
        /\ Validated(rq[s1]) /\ rq[s1].vres = "true"
        /\ rq[s1].sent = <<NotControlKey>>
        /\ rq[s2].ip = rq[s1].ip
        /\ Wrote(rq[s2], Banned)
        /\ now < rq[s1].bannedAt + 300

(***************************************************************************)
(* C6.  Banned-address path.  When isBanned(address) answers true for an   *)
(* admin POST, the admin step writes 401 "Banned" and returns: the control *)
(* key is not fetched, ban is not called, the Ban Store is unchanged and   *)
(* the request is not admitted, whatever key it declares.                  *)
(***************************************************************************)
C6_BannedIsTerminal ==
    [][\A s \in Slots :
          (BanCheckOf(s) /\ rq'[s].ares # "rejected"
              /\ \E b \in banStore : b.address = rq[s].ip /\ now < b.expiresAt)
          => /\ rq'[s].sent = Append(rq[s].sent, Banned)
             /\ rq'[s].apc = "returned"
             /\ rq'[s].ares = "undefined"
             /\ ~Called(rq'[s], "getPublicControlKey")
             /\ ~Called(rq'[s], "ban")
             /\ banStore' = banStore]_vars

C6_Witness ==
    \E s \in Slots :
        /\ Wrote(rq[s], Banned)
        /\ DeclaresControlKey(rq[s])
        /\ rq[s].apc = "returned"
        /\ banStore # {}

(***************************************************************************)
(* C7.  Admin round-trip.  An admin POST to an existing endpoint with a    *)
(* valid length, an accepted type, a signature that verifies under the     *)
(* declared key, the control key declared and an address that is not       *)
(* banned is admitted, with no response written and no ban written.        *)
(***************************************************************************)
C7_RoundTrip ==
    \A s \in Slots :
        (rq[s].entry = "checkAdminRequest" /\ rq[s].method = "POST"
            /\ Validated(rq[s]) /\ DeclaresControlKey(rq[s])
            /\ rq[s].apc = "returned" /\ rq[s].ares # "rejected"
            /\ ~Wrote(rq[s], Banned))
        => /\ rq[s].ares = "true"
           /\ rq[s].sent = <<>>
           /\ ~Called(rq[s], "ban")
           /\ banStore = {}

C7_Witness ==
    \E s \in Slots :
        /\ rq[s].entry = "checkAdminRequest" /\ rq[s].method = "POST"
        /\ Validated(rq[s]) /\ DeclaresControlKey(rq[s])
        /\ rq[s].vres = "true"
        /\ rq[s].ares = "true"

(***************************************************************************)
(* C8.  A request whose method or path is absent from the endpoint table   *)
(* gets the 404 "Not found" response and is not admitted; its body is not  *)
(* read and no other check runs.  Through checkAdminRequest this fails.    *)
(***************************************************************************)
C8_MissingEndpointIs404Only ==
    \A s \in Slots :
        (rq[s].entry # "idle" /\ ~InTable(rq[s]))
        => /\ rq[s].sent = <<NotFound>>
           /\ CallerResult(rq[s]) # "true"
           /\ rq[s].observed = {}
           /\ \A i \in 1..Len(rq[s].calls) :
                  rq[s].calls[i] \in {"send", "validateRequest.return",
                                      "checkAdminRequest.return"}

(***************************************************************************)
(* C9.  For a non-POST request to an existing endpoint checkRequest        *)
(* returns true without reading the body or any of the Content-Length,     *)
(* Content-Type, X-Public-Key and X-Signature headers, and writes no       *)
(* response.                                                               *)
(***************************************************************************)
C9_NonPostPassesUnread ==
    \A s \in Slots :
        (rq[s].entry = "checkRequest" /\ rq[s].method # "POST" /\ InTable(rq[s]))
        => /\ rq[s].vres = "true"
           /\ rq[s].observed = {}
           /\ ~Called(rq[s], "text")
           /\ rq[s].sent = <<>>

C9_Witness ==
    \E s \in Slots :
        /\ rq[s].entry = "checkRequest"
        /\ rq[s].method = "GET"
        /\ rq[s].pathname = "/g"
        /\ rq[s].vres = "true"

(***************************************************************************)
(* C10.  A POST to an existing endpoint whose Content-Length is absent or  *)
(* not a number, or exceeds MAX_CONTENT_LENGTH, or is exceeded by the      *)
(* body, gets a 413 response and is not admitted.  Through                 *)
(* checkAdminRequest this fails.                                           *)
(***************************************************************************)
C10_BadLengthIs413 ==
    \A s \in Slots :
        (rq[s].method = "POST" /\ InTable(rq[s])
            /\ \/ rq[s].contentLength.nan
               \/ rq[s].contentLength.n > MaxContentLength
               \/ "body" \in rq[s].observed /\ Len(rq[s].body) > rq[s].contentLength.n
            /\ rq[s].vres # "rejected"
            /\ CallerResult(rq[s]) \notin {"pending", "rejected"})
        => /\ CallerResult(rq[s]) # "true"
           /\ rq[s].vpc = "returned" => rq[s].sent = <<TooLarge>>

BadType == Response(400, "Header Content-Type should be one of")
MissingHeaders == Response(401, "Header should contain X-Public-Key and X-Signature")
KeyFormat == Response(401, "Header X-Public-Key should be the compressed public key")
DoesNotVerify == Response(401, "Header X-Signature does not verify")

\* the caller has its answer, and no I/O of the request failed
Answered(r) ==
    /\ CallerResult(r) \in {"true", "undefined"}
    /\ r.vres # "rejected"

(***************************************************************************)
(* C11.  A POST that passed the existence and content-length checks and    *)
(* whose Content-Type is not exactly "application/json" or                 *)
(* "application/json; charset=utf-8" (an absent header included) gets a    *)
(* 400 response and is not admitted.  Through checkAdminRequest this       *)
(* fails.                                                                  *)
(***************************************************************************)
C11_BadTypeIs400 ==
    \A s \in Slots :
        (rq[s].method = "POST" /\ InTable(rq[s]) /\ LengthAccepted(rq[s])
            /\ "content-type" \in rq[s].observed /\ ~TypeAccepted(rq[s])
            /\ Answered(rq[s]))
        => /\ CallerResult(rq[s]) # "true"
           /\ rq[s].sent = <<BadType>>

(***************************************************************************)
(* C12.  Failure classes of the signature step, for a POST that passed     *)
(* the existence, length and type checks: a missing or empty X-Public-Key  *)
(* or X-Signature gives the 401 missing-headers message, a key that does   *)
(* not parse or a verification that throws gives the 401 key-format        *)
(* message, a verification that returns false gives the 401                *)
(* does-not-verify message; the request is denied and exactly one of the   *)
(* three messages is written.  Through checkAdminRequest this fails.       *)
(***************************************************************************)
SignatureMessages(r) ==
    {i \in 1..Len(r.sent) : r.sent[i] \in {MissingHeaders, KeyFormat, DoesNotVerify}}

C12_SignatureFailureClasses ==
    \A s \in Slots :
        LET r == rq[s]
            present == /\ r.publicKeyHdr.def /\ r.publicKeyHdr.s # <<>>
                       /\ r.signatureHdr.def /\ r.signatureHdr.s.kind # "empty"
            parses == r.publicKeyHdr.s \in {<<2, 5>>, <<3, 5>>, <<2, 7>>, <<3, 7>>}
        IN  (r.method = "POST" /\ InTable(r) /\ LengthAccepted(r) /\ TypeAccepted(r)
                /\ r.vpc = "returned" /\ r.vres = "undefined" /\ Answered(r))
            => /\ CallerResult(r) # "true"
               /\ Cardinality(SignatureMessages(r)) = 1
               /\ ~present => Wrote(r, MissingHeaders)
               /\ (present /\ ~parses) => Wrote(r, KeyFormat)
               /\ (present /\ parses /\ r.signatureHdr.s.kind = "sig")
                      => Wrote(r, DoesNotVerify)
               /\ (present /\ parses /\ r.signatureHdr.s.kind = "garbage")
                      => Wrote(r, KeyFormat) \/ Wrote(r, DoesNotVerify)

(***************************************************************************)
(* C13.  The address of a request is X-Real-IP if present and non-empty,   *)
(* otherwise X-Forwarded-For if present and non-empty, otherwise the       *)
(* peer address; isBanned and ban of one request get that same address.    *)
(***************************************************************************)
ResolvedAddress(r) ==
    IF r.realIpHdr.def /\ r.realIpHdr.s # "" THEN r.realIpHdr.s
    ELSE IF r.forwardedForHdr.def /\ r.forwardedForHdr.s # "" THEN r.forwardedForHdr.s
    ELSE r.remoteAddress

C13_AddressOfBanCheck ==
    \A s \in Slots :
        Called(rq[s], "isBanned") =>
            /\ rq[s].ip = ResolvedAddress(rq[s])
            /\ rq[s].ip \in {"10.0.0.1", "10.0.0.2", "10.0.0.3"}
            /\ "x-real-ip" \in rq[s].observed
            /\ rq[s].ip = "10.0.0.2" => "x-forwarded-for" \in rq[s].observed
            /\ rq[s].ip = "10.0.0.3" => "remoteAddress" \in rq[s].observed

C13_AddressOfBanWrite ==
    \A s \in Slots :
        (rq[s].apc = "ban" /\ rq'[s].apc = "returned" /\ rq'[s].ares # "rejected")
        => banStore' = {[address |-> ResolvedAddress(rq[s]),
                         expiresAt |-> now + rq[s].duration]}

C13_SourceAddress == []C13_AddressOfBanCheck /\ [][C13_AddressOfBanWrite]_vars

C13_Witness ==
    \E s \in Slots :
        /\ rq[s].realIpHdr = Str("")
        /\ rq[s].forwardedForHdr = Str("10.0.0.2")
        /\ Wrote(rq[s], NotControlKey)
        /\ \E b \in banStore : b.address = "10.0.0.2"

(***************************************************************************)
(* C14.  Within one request handled by checkAdminRequest the ban-store     *)
(* lookup, the control-key fetch and the ban write start only after the    *)
(* Request Validator of that request has resolved.  The code starts them   *)
(* while the validator still awaits the body, so this fails.               *)
(***************************************************************************)
C14_AdminStepsAfterValidator ==
    \A s \in Slots :
        \A i \in 1..Len(rq[s].calls) :
            rq[s].calls[i] \in {"isBanned", "getPublicControlKey", "ban"}
            => \E j \in 1..(i - 1) :
                   rq[s].calls[j] \in {"validateRequest.return", "validateRequest.throw"}

(***************************************************************************)
(* C15.  checkAdminRequest calls ban only for a POST that passed every     *)
(* check of the Request Validator, whose address was not banned and whose  *)
(* X-Public-Key differs from the control key; a request the validator      *)
(* rejects never causes a ban.  The code bans without waiting for the      *)
(* validator, so this fails.                                               *)
(***************************************************************************)
C15_BanOnlyAfterValidation ==
    \A s \in Slots :
        Called(rq[s], "ban") =>
            /\ rq[s].method = "POST"
            /\ rq[s].vres = "true"
            /\ Validated(rq[s])
            /\ ~DeclaresControlKey(rq[s])
            /\ ~Wrote(rq[s], Banned)

(***************************************************************************)
(* C16.  The Request Validator is one pass that stops at the first         *)
(* failure in the order existence (404), content length (413), content     *)
(* type (400), header presence (401), signature (401): it writes at most   *)
(* one response, that of the earliest violated check, and evaluates no     *)
(* later check after a failure.                                            *)
(***************************************************************************)
\* the responses of validateRequest among those written for the request
ValidatorResponses(r) ==
    SelectSeq(r.sent, LAMBDA x : x \notin {Banned, NotControlKey})

C16_FirstFailureWins ==
    \A s \in Slots :
        LET r == rq[s]
            v == ValidatorResponses(r)
            present == /\ r.publicKeyHdr.def /\ r.publicKeyHdr.s # <<>>
                       /\ r.signatureHdr.def /\ r.signatureHdr.s.kind # "empty"
        IN  /\ Len(v) <= 1
            /\ r.vres = "undefined" <=> Len(v) = 1
            /\ (r.entry # "idle" /\ ~InTable(r)) =>
                   /\ v = <<NotFound>>
                   /\ r.observed \cap {"content-length", "body", "content-type",
                                       "x-signature"} = {}
                   /\ ~Called(r, "text")
            /\ v = <<NotFound>> => ~InTable(r)
            /\ v = <<TooLarge>> =>
                   /\ InTable(r) /\ r.method = "POST"
                   /\ "body" \in r.observed /\ ~LengthAccepted(r)
                   /\ r.observed \cap {"content-type", "x-signature"} = {}
                   /\ ~Called(r, "hashAndVerify")
            /\ v = <<BadType>> =>
                   /\ InTable(r) /\ r.method = "POST" /\ LengthAccepted(r)
                   /\ "content-type" \in r.observed /\ ~TypeAccepted(r)
                   /\ "x-signature" \notin r.observed
                   /\ ~Called(r, "hashAndVerify")
            /\ v = <<MissingHeaders>> =>
                   /\ InTable(r) /\ r.method = "POST" /\ LengthAccepted(r)
                   /\ TypeAccepted(r) /\ "x-signature" \in r.observed /\ ~present
                   /\ ~Called(r, "hashAndVerify")
            /\ (v = <<KeyFormat>> \/ v = <<DoesNotVerify>>) =>
                   /\ InTable(r) /\ r.method = "POST" /\ LengthAccepted(r)
                   /\ TypeAccepted(r) /\ present /\ ~SignedByDeclaredKey(r)
            /\ Len(v) = 1 =>
                   v[1] \in {NotFound, TooLarge, BadType, MissingHeaders, KeyFormat,
                             DoesNotVerify}

\* a POST with a bad length was answered 413 and its later parts were not read
C16_Witness ==
    \E s \in Slots :
        /\ rq[s].entry = "checkRequest"
        /\ rq[s].contentLengthHdr = Str(<<"9">>)
        /\ rq[s].sent = <<TooLarge>>
        /\ "content-type" \notin rq[s].observed

(***************************************************************************)
(* C17.  The ban duration passed to ban on a control-key mismatch is a     *)
(* whole number of seconds d with 300 < d <= 330 for every value the       *)
(* random source can return, 0 included: it is never 300 or less.          *)
(***************************************************************************)
C17_DurationAboveFiveMinutes ==
    \A s \in Slots :
        Called(rq[s], "ban") => (300 < rq[s].duration /\ rq[s].duration <= 330)

\* as amended: 300 <= d <= 330, the lower end reached
C17_DurationFromFiveMinutes ==
    \A s \in Slots :
        Called(rq[s], "ban") =>
            (5 * MINUTE <= rq[s].duration /\ rq[s].duration <= 5 * MINUTE + 30)

\* ban was called with the shortest and, by another request, the longest duration
C17_Witness ==
    \E s, t \in Slots :
        /\ Called(rq[s], "ban") /\ rq[s].duration = 300
        /\ Called(rq[t], "ban") /\ rq[t].duration = 330

(***************************************************************************)
(* C18.  For any interleaving of admin POSTs from one address at their     *)
(* suspension points, the Ban Store holds at most one record for that      *)
(* address, and its expiry is the one set by the last completed ban write  *)
(* (replaced, never added to an earlier expiry); two concurrent mismatch   *)
(* requests that both pass the ban check both write, and the later write   *)
(* wins.                                                                   *)
(***************************************************************************)
RecordsOf(store, a) == {b \in store : b.address = a}

C18_OneRecordPerAddress ==
    \A b, c \in banStore : b.address = c.address => b = c

\* the slots whose ban write completes in this step
BanWriters ==
    {s \in Slots : rq[s].apc = "ban" /\ rq'[s].apc # "ban" /\ rq'[s].ares # "rejected"}

\* a step changes the store only by a completed ban write, which leaves for
\* its address exactly the record expiring `duration` after the write
C18_LastWriteWins ==
    /\ \A s \in BanWriters :
           /\ RecordsOf(banStore', rq[s].ip) =
                  {[address |-> rq[s].ip, expiresAt |-> now + rq[s].duration]}
           /\ \A a \in {b.address : b \in banStore} \ {rq[s].ip} :
                  RecordsOf(banStore', a) = RecordsOf(banStore, a)
    /\ BanWriters = {} => banStore' = banStore

C18_ReplaceNotExtend == []C18_OneRecordPerAddress /\ [][C18_LastWriteWins]_vars

\* both requests wrote a ban for the same address, the second while the
\* record of the first was live, so it passed the ban check before the first
\* wrote; the store holds the record of the second write alone
C18_Witness ==
    /\ \A s \in Slots :
           /\ Wrote(rq[s], NotControlKey)
           /\ ~Wrote(rq[s], Banned)
           /\ rq[s].ip = "10.0.0.1"
    /\ rq[1].bannedAt < rq[2].bannedAt
    /\ rq[2].bannedAt < rq[1].bannedAt + rq[1].duration
    /\ banStore = {[address |-> "10.0.0.1",
                    expiresAt |-> rq[2].bannedAt + rq[2].duration]}

(***************************************************************************)
(* C19.  No exception or rejected promise escapes checkRequest or          *)
(* checkAdminRequest: a failing body read, a throwing key parse or         *)
(* verification, and a failing Ban Store or Key Store call each become a   *)
(* terminal response and a falsy result handed to the caller.              *)
(***************************************************************************)
C19_NoRejectionEscapes ==
    \A s \in Slots :
        /\ rq[s].vres # "rejected"
        /\ rq[s].ares # "rejected"
        /\ (rq[s].entry # "idle" /\ CallerResult(rq[s]) = "undefined") =>
               Len(rq[s].sent) >= 1

(***************************************************************************)
(* C20.  The ban and control-key steps apply only to POST: a non-POST      *)
(* request to an existing admin endpoint is admitted by checkAdminRequest  *)
(* without resolving the source address, without calling isBanned,         *)
(* getPublicControlKey or ban, and with the Ban Store unchanged, even      *)
(* when its address is currently banned.                                   *)
(***************************************************************************)
C20_NonPostAdmitted ==
    \A s \in Slots :
        (rq[s].entry = "checkAdminRequest" /\ rq[s].method # "POST" /\ InTable(rq[s])) =>
            /\ rq[s].ares = "true"
            /\ rq[s].apc = "returned"
            /\ rq[s].sent = <<>>
            /\ rq[s].observed \cap {"x-real-ip", "x-forwarded-for", "remoteAddress"} = {}
            /\ ~Called(rq[s], "isBanned")
            /\ ~Called(rq[s], "getPublicControlKey")
            /\ ~Called(rq[s], "ban")

\* the step that takes such a request leaves the Ban Store as it was
C20_StoreUntouched ==
    \A s \in Slots :
        (rq[s].entry = "idle" /\ rq'[s].entry = "checkAdminRequest"
             /\ rq'[s].method # "POST") => banStore' = banStore

C20_PostOnly == []C20_NonPostAdmitted /\ [][C20_StoreUntouched]_vars

\* a GET was admitted while the store held a live ban of the address all
\* requests come from
C20_Witness ==
    \E s \in Slots :
        /\ rq[s].entry = "checkAdminRequest"
        /\ rq[s].method = "GET"
        /\ rq[s].ares = "true"
        /\ isBanned(banStore, "10.0.0.1", now)

====
